---- MODULE Spec2Model ----
(***************************************************************************)
(* HyperLoop: a driver that launches an external optimizer N times, waits  *)
(* for its artifact, extracts a result from the captured log and keeps a   *)
(* bounded leaderboard of results (DataHandling) persisted to one file.    *)
(*                                                                         *)
(* Objectives are floats in the program; here they are small naturals with *)
(* the same order.  A result's objective is one of                         *)
(*   "float"  - the key holds a number,                                    *)
(*   "None"   - the key is present and holds None (what parse_log_file     *)
(*              returns when the result line has no "Objective:" field),   *)
(*   "absent" - the dict has no "objective" key at all.                    *)
(* Time is counted in ticks of half a second (the shortest sleep).         *)
(***************************************************************************)
EXTENDS Integers, Sequences, FiniteSets, TLC

\* ------------------------------------------------------------------ bounds
MaxTopN == 2
MaxRuns == 2
MaxObjective == 2
MaxCalls == 4

\* ------------------------------------------------------- program constants
CHECK_INTERVAL == 15
MIN_WAIT_BEFORE_PROCESS_CHECK == 60
max_retries == 3
TicksPerSecond == 2

VARIABLES
    pc,              \* position of the driver
    top_n,           \* config: TOP_N, the board's capacity
    num_runs,        \* config: NUM_RUNS
    i,               \* run_loop's loop variable (the run_id)
    attempt,         \* wait_for_hyperopt_completion: index of the inner for loop
    elapsed,         \* ticks since start_time (saturating above the minimum wait)
    lastScan,        \* what the process scan of this pass of the while loop observed
    artifact,        \* the strategy JSON file: absent, unreadable, empty or ready
    liveProcs,       \* run ids whose launched optimizer process is still running
    data,            \* DataHandling.data: [top_results, failed_runs]
    file,            \* top_results.json on disk
    markers,         \* FAILED files written so far
    successful_runs, \* run_loop's counter
    lastCall,        \* history: the last DataHandling call, its argument and outcome
    calls,           \* history: number of DataHandling calls made by the API driver
    attemptLog,      \* history: the steps taken by the current attempt, in order
    report,          \* what run_loop printed about the last admission
    artifactBy,      \* the run whose process created the artifact; 0: none of them
    log_file,        \* hyperopt.log of the run directory that is parsed
    parses           \* history: the outcome of every extract_data call, in order

vars == <<pc, top_n, num_runs, i, attempt, elapsed, lastScan, artifact, liveProcs,
          data, file, markers, successful_runs, lastCall, calls, attemptLog, report,
          log_file, parses, artifactBy>>

\* ------------------------------------------------------------ result values
Objectives == 1..MaxObjective

FloatResult(run, o) == [run |-> run, okind |-> "float", objective |-> o]
NoneResult(run) == [run |-> run, okind |-> "None", objective |-> 0]
AbsentResult(run) == [run |-> run, okind |-> "absent", objective |-> 0]

\* A result as parse_log_file assembles it: the "objective" key is always
\* present, holding the parsed float or None.
ExtractedResults(run) ==
    {FloatResult(run, o) : o \in Objectives} \cup {NoneResult(run)}

\* Any result dict a caller of add_result may pass.
AnyResults(run) == ExtractedResults(run) \cup {AbsentResult(run)}

\* float("inf"): above every objective
Inf == MaxObjective + 1

\* x.get("objective", float("inf")): the default is used only when the key is
\* absent; a key holding None yields None.
ObjectiveKey(r) ==
    IF r.okind = "absent" THEN [isNone |-> FALSE, val |-> Inf]
    ELSE IF r.okind = "None" THEN [isNone |-> TRUE, val |-> 0]
    ELSE [isNone |-> FALSE, val |-> r.objective]

\* Python raises TypeError when None is ordered against anything.
CompareRaises(a, b) == a.isNone \/ b.isNone

RECURSIVE AnyNoneKey(_)
AnyNoneKey(s) ==
    IF s = <<>> THEN FALSE
    ELSE ObjectiveKey(Head(s)).isNone \/ AnyNoneKey(Tail(s))

\* max(top_results, key=...): the first element among those with the greatest
\* key.  Every element after the first is compared with the running maximum.
MaxRaises(s) == Len(s) >= 2 /\ AnyNoneKey(s)

\* Mutant: among equal keys the last one is taken for the worst.
RECURSIVE MaxIndexFrom_lastOfEqual(_, _, _)
MaxIndexFrom_lastOfEqual(s, best, k) ==
    IF k > Len(s) THEN best
    ELSE IF ObjectiveKey(s[k]).val >= ObjectiveKey(s[best]).val
         THEN MaxIndexFrom_lastOfEqual(s, k, k + 1)
         ELSE MaxIndexFrom_lastOfEqual(s, best, k + 1)

RECURSIVE MaxIndexFrom(_, _, _)
MaxIndexFrom(s, best, k) ==
    IF k > Len(s) THEN best
    ELSE IF ObjectiveKey(s[k]).val > ObjectiveKey(s[best]).val
         THEN MaxIndexFrom(s, k, k + 1)
         ELSE MaxIndexFrom(s, best, k + 1)

\* Mutant: the entry taken for the worst is the one at the head of the list.
MaxIndex_head(s) == 1

MaxIndex(s) == MaxIndexFrom(s, 1, 2)

\* list.remove(x): drops the first element equal to x.
RECURSIVE RemoveFirst(_, _)
RemoveFirst(s, x) ==
    IF s = <<>> THEN <<>>
    ELSE IF Head(s) = x THEN Tail(s)
    ELSE <<Head(s)>> \o RemoveFirst(Tail(s), x)

\* list.sort(key=...): stable, ascending.  Sorting two or more elements
\* compares every one of them at least once.
SortRaises(s) == Len(s) >= 2 /\ AnyNoneKey(s)

RECURSIVE InsertStable(_, _)
InsertStable(sorted, x) ==
    IF sorted = <<>> THEN <<x>>
    ELSE IF ObjectiveKey(x).val < ObjectiveKey(Head(sorted)).val
         THEN <<x>> \o sorted
         ELSE <<Head(sorted)>> \o InsertStable(Tail(sorted), x)

RECURSIVE SortFrom(_, _)
SortFrom(acc, rest) ==
    IF rest = <<>> THEN acc
    ELSE SortFrom(InsertStable(acc, Head(rest)), Tail(rest))

\* Mutant: the list is returned as it stands, without the sort.
SortByObjective_skipped(s) == s

SortByObjective(s) == SortFrom(<<>>, s)

\* ------------------------------------------------------------ DataHandling
Raised(kind) == [raised |-> kind, value |-> <<>>]
Returned(v) == [raised |-> "", value |-> v]

\* The admission test of update_top_results at capacity.
Admits(new_key, worst_key) == new_key.val < worst_key.val

\* The list appended to or replaced in, before the sort.
Candidates(top_results, new_result, n) ==
    IF Len(top_results) < n
    THEN Returned(Append(top_results, new_result))
    ELSE IF MaxRaises(top_results) THEN Raised("TypeError")
    ELSE LET worst_result == top_results[MaxIndex(top_results)]
         IN IF CompareRaises(ObjectiveKey(new_result), ObjectiveKey(worst_result))
            THEN Raised("TypeError")
            ELSE IF Admits(ObjectiveKey(new_result), ObjectiveKey(worst_result))
                 THEN Returned(Append(RemoveFirst(top_results, worst_result), new_result))
                 ELSE Returned(top_results)

SortStep(s) == IF SortRaises(s) THEN Raised("TypeError") ELSE Returned(SortByObjective(s))

update_top_results(top_results, new_result, n) ==
    LET c == Candidates(top_results, new_result, n)
    IN IF c.raised # "" THEN c ELSE SortStep(c.value)

EmptyData == [top_results |-> <<>>, failed_runs |-> <<>>]

\* The failure record; "now" stands for datetime.now().isoformat(), whose
\* value decides nothing here.
FailureRecord(run_id, error) ==
    [run_id |-> run_id, timestamp |-> "now", error |-> error,
     error_type |-> IF error = "launch" THEN "OSError" ELSE "RuntimeError"]

\* ---------------------------------------------------------------- JSON text
\* What json.dump writes and json.loads reads: an object holds the members
\* the dict has, None is written as null, numbers as numbers, str as strings.
JsonNull == [t |-> "null", v |-> 0]
JsonNumber(n) == [t |-> "number", v |-> n]
JsonString(str) == [t |-> "string", v |-> str]

\* Mutant: a dict without the "objective" key is written with a null member.
dump_result_absentAsNull(r) ==
    [run |-> JsonNumber(r.run),
     objective |-> IF r.okind = "float" THEN JsonNumber(r.objective) ELSE JsonNull]

dump_result(r) ==
    IF r.okind = "absent" THEN [run |-> JsonNumber(r.run)]
    ELSE [run |-> JsonNumber(r.run),
          objective |-> IF r.okind = "None" THEN JsonNull ELSE JsonNumber(r.objective)]

loads_result(j) ==
    IF "objective" \notin DOMAIN j THEN AbsentResult(j.run.v)
    ELSE IF j.objective.t = "null" THEN NoneResult(j.run.v)
    ELSE FloatResult(j.run.v, j.objective.v)

dump_failure(fr) ==
    [run_id |-> JsonNumber(fr.run_id), timestamp |-> JsonString(fr.timestamp),
     error |-> JsonString(fr.error), error_type |-> JsonString(fr.error_type)]

loads_failure(j) ==
    [run_id |-> j.run_id.v, timestamp |-> j.timestamp.v, error |-> j.error.v,
     error_type |-> j.error_type.v]

RECURSIVE dump_results(_)
dump_results(s) ==
    IF s = <<>> THEN <<>> ELSE <<dump_result(Head(s))>> \o dump_results(Tail(s))

RECURSIVE loads_results(_)
loads_results(s) ==
    IF s = <<>> THEN <<>> ELSE <<loads_result(Head(s))>> \o loads_results(Tail(s))

RECURSIVE dump_failures(_)
dump_failures(s) ==
    IF s = <<>> THEN <<>> ELSE <<dump_failure(Head(s))>> \o dump_failures(Tail(s))

RECURSIVE loads_failures(_)
loads_failures(s) ==
    IF s = <<>> THEN <<>> ELSE <<loads_failure(Head(s))>> \o loads_failures(Tail(s))

\* json.dump(self.data, f): the document of a state
json_dump(d) ==
    [top_results |-> dump_results(d.top_results),
     failed_runs |-> dump_failures(d.failed_runs)]

\* json.loads(text): the value of a document, whatever members it has
json_loads(j) ==
    IF {"top_results", "failed_runs"} \subseteq DOMAIN j
    THEN [top_results |-> loads_results(j.top_results),
          failed_runs |-> loads_failures(j.failed_runs)]
    ELSE [top_results |-> loads_results(j.top_results)]

\* top_results.json: missing, not decodable as JSON, a saved document, JSON
\* that is not a leaderboard document (here {"top_results": []}), or bytes
\* that are not UTF-8 text
NoFile == [kind |-> "none", doc |-> EmptyData]
CorruptFile == [kind |-> "corrupt", doc |-> EmptyData]
DocFile(d) == [kind |-> "doc", doc |-> json_dump(d)]
ForeignFile == [kind |-> "doc", doc |-> [top_results |-> <<>>]]
BinaryFile == [kind |-> "bytes", doc |-> EmptyData]

\* How a write of the file ends: "ok"; "unchanged", open() raised OSError and
\* the file is as before; "partial", json.dump raised OSError after open()
\* truncated the file.  save_data catches OSError and only warns.
WriteOutcomes == {"ok", "unchanged", "partial"}

\* Mutant: the file is left as it was, whatever the write's outcome.
save_data_stale(d, f, w) == f

save_data(d, f, w) ==
    IF w = "ok" THEN DocFile(d)
    ELSE IF w = "unchanged" THEN f
    ELSE CorruptFile

\* load_data: json.loads of the text when the file exists; the empty state
\* when there is no file or on OSError or JSONDecodeError.  read_text raises
\* UnicodeDecodeError (a ValueError) on bytes that are not text.
load_data(f) ==
    IF f.kind = "doc" THEN Returned(json_loads(f.doc))
    ELSE IF f.kind = "bytes" THEN Raised("UnicodeDecodeError")
    ELSE Returned(EmptyData)

\* clean_data_file: the results file is removed when it exists
clean_data_file(f) == NoFile

\* self.data["top_results"] / self.data["failed_runs"] on a loaded state
KeyError(d, key) == key \notin DOMAIN d

\* Mutant: the admission is undone when the write of the file fails.
add_result_lostOnFailedWrite(d, f, result, n, w) ==
    LET out == update_top_results(d.top_results, result, n)
    IN IF out.raised # ""
       THEN [raised |-> out.raised, data |-> d, file |-> f]
       ELSE LET d2 == [d EXCEPT !.top_results = out.value]
            IN [raised |-> "", data |-> IF w = "ok" THEN d2 ELSE d,
                file |-> save_data(d2, f, w)]

\* Mutant: add_result writes a state that holds the board alone.
add_result_boardOnly(d, f, result, n, w) ==
    LET out == update_top_results(d.top_results, result, n)
    IN IF out.raised # ""
       THEN [raised |-> out.raised, data |-> d, file |-> f]
       ELSE LET d2 == [top_results |-> out.value, failed_runs |-> <<>>]
            IN [raised |-> "", data |-> d2, file |-> save_data(d2, f, w)]

\* add_result: [raised, data, file] after the call
add_result(d, f, result, n, w) ==
    LET out == update_top_results(d.top_results, result, n)
    IN IF out.raised # ""
       THEN [raised |-> out.raised, data |-> d, file |-> f]
       ELSE LET d2 == [d EXCEPT !.top_results = out.value]
            IN [raised |-> "", data |-> d2, file |-> save_data(d2, f, w)]

\* Mutant: the record is appended and the file is not saved.
record_failure_unsaved(d, f, run_id, error, w) ==
    [raised |-> "",
     data |-> [d EXCEPT !.failed_runs = Append(@, FailureRecord(run_id, error))],
     file |-> f]

\* Mutant: the record is put at the head of failed_runs.
record_failure_prepended(d, f, run_id, error, w) ==
    IF KeyError(d, "failed_runs") THEN [raised |-> "KeyError", data |-> d, file |-> f]
    ELSE LET d2 == [d EXCEPT !.failed_runs = <<FailureRecord(run_id, error)>> \o @]
         IN [raised |-> "", data |-> d2, file |-> save_data(d2, f, w)]

\* Mutant: recording a failure starts the board afresh.
record_failure_clearing(d, f, run_id, error, w) ==
    IF KeyError(d, "failed_runs") THEN [raised |-> "KeyError", data |-> d, file |-> f]
    ELSE LET d2 == [top_results |-> <<>>,
                    failed_runs |-> Append(d.failed_runs, FailureRecord(run_id, error))]
         IN [raised |-> "", data |-> d2, file |-> save_data(d2, f, w)]

\* record_failure: [raised, data, file] after the call
record_failure(d, f, run_id, error, w) ==
    IF KeyError(d, "failed_runs") THEN [raised |-> "KeyError", data |-> d, file |-> f]
    ELSE LET d2 == [d EXCEPT !.failed_runs = Append(@, FailureRecord(run_id, error))]
         IN [raised |-> "", data |-> d2, file |-> save_data(d2, f, w)]

get_top_results(d) == d.top_results

\* -------------------------------------------------------------- extraction
\* hyperopt.log as content.split("\n") gives it: a sequence of lines, each
\* described by what the parser's tests and patterns find in it.
\*   blank    - the empty string
\*   text     - a non-empty line none of the patterns match (no colon, no #)
\*   marker   - contains "Best result:"
\*   data     - the result line: trades, profit; epoch is the N of "N/M:" or 0
\*              when the line has none; okind tells what follows "Objective:"
\*              ("float", "None" when the field is missing, "bad" for text
\*              such as "-" that float() rejects)
\*   row      - a table row: contains "<epoch>/100" and the column separator;
\*              columns is len(line.split(separator)), cell is column 9
\*   drawdown - a "Max drawdown" line, in the full or the loose form
\*   header   - a "# ... parameters:" line; loaded tells whether it also
\*              carries "# value loaded from strategy"
\*   start    - "<param_type> = {"
\*   param    - a line inside a block: a '"key": value,' pair, junk (text
\*              without a colon) or a pair followed by a # comment
\*   close    - "}"
NoLine == [kind |-> "none"]
BlankLine == [kind |-> "blank"]
TextLine == [kind |-> "text"]
MarkerLine == [kind |-> "marker"]
DataLine(epoch, okind, objective) ==
    [kind |-> "data", epoch |-> epoch, okind |-> okind, objective |-> objective]
TableRow(epoch, columns, cell) ==
    [kind |-> "row", epoch |-> epoch, columns |-> columns, cell |-> cell]
DrawdownLine(form) == [kind |-> "drawdown", form |-> form]
SectionHeader(param_type, loaded) ==
    [kind |-> "header", param_type |-> param_type, loaded |-> loaded]
BlockStart(param_type) == [kind |-> "start", param_type |-> param_type]
ParamLine(form) == [kind |-> "param", form |-> form]
CloseLine == [kind |-> "close"]

\* The log file of a run directory
NoLog == [exists |-> FALSE, lines |-> <<>>]
LogOf(lines) == [exists |-> TRUE, lines |-> lines]

\* The first index of a set of indices, 0 when there is none (a for loop
\* that breaks on its first hit)
First(S) == IF S = {} THEN 0 ELSE CHOOSE k \in S : \A j \in S : k <= j

\* "#" in line, ":" in line
HasHash(line) ==
    \/ line.kind = "header"
    \/ line.kind = "param" /\ line.form = "comment"
HasColon(line) ==
    \/ line.kind \in {"marker", "data", "drawdown", "header"}
    \/ line.kind = "param" /\ line.form \in {"pair", "comment"}

\* parse_result_data: the metrics found in one line.  float() of the text
\* after "Objective:" raises ValueError when it is not a number.
parse_result_data(best_result_line) ==
    IF best_result_line.kind # "data" THEN Returned([fields |-> {}, objective |-> 0])
    ELSE IF best_result_line.okind = "bad" THEN Raised("ValueError")
    ELSE IF best_result_line.okind = "float"
         THEN Returned([fields |-> {"total_trades", "total_profit", "objective"},
                        objective |-> best_result_line.objective])
         ELSE Returned([fields |-> {"total_trades", "total_profit"}, objective |-> 0])

\* The line two below the first "Best result:" line, None when there is no
\* such line
best_result_line(lines) ==
    LET k == First({j \in 1..Len(lines) : lines[j].kind = "marker"})
    IN IF k = 0 \/ k + 2 > Len(lines) THEN NoLine ELSE lines[k + 2]

\* "if not best_result_line": None or the empty string
Falsy(line) == line.kind \in {"none", "blank"}

\* re.search(r"(\d+)/\d+:", best_result_line)
epoch_match(line) == line.kind = "data" /\ line.epoch # 0

\* The table lookup: the first row of the epoch, its column 9.  "unset"
\* stands for a metrics dict without "max_drawdown".
TableDrawdown(lines, epoch_num) ==
    LET k == First({j \in 1..Len(lines) :
                       lines[j].kind = "row" /\ lines[j].epoch = epoch_num})
    IN IF k = 0 THEN "unset"
       ELSE IF lines[k].columns > 9
            THEN IF lines[k].cell = "--" THEN "zero"
                 ELSE IF lines[k].cell = "" THEN "unset"
                 ELSE "cell"
            ELSE "unset"

\* The two patterns searched in the whole content
PatternDrawdown(lines) ==
    IF \E j \in 1..Len(lines) : lines[j].kind = "drawdown" /\ lines[j].form = "full"
    THEN "full"
    ELSE IF \E j \in 1..Len(lines) : lines[j].kind = "drawdown"
         THEN "loose"
         ELSE "unset"

\* The drawdown of parse_log_file: the patterns are the else branch of
\* "if epoch_match".
max_drawdown(lines, line) ==
    IF epoch_match(line) THEN TableDrawdown(lines, line.epoch) ELSE PatternDrawdown(lines)

\* The parameter groups looked for (the other five are treated as buy_params
\* is; roi_params has a filter of its own)
param_sections == {"buy_params", "roi_params"}

\* The inner loop over the lines for one group: [closed, text], closed when
\* the loop reached a "}" inside the section, text the pieces collected.
RECURSIVE ScanSection(_, _, _, _)
ScanSection(lines, param_type, in_section, param_text) ==
    IF lines = <<>> THEN [closed |-> FALSE, text |-> param_text]
    ELSE LET line == Head(lines)
         IN IF line.kind = "header" /\ line.param_type = param_type
            THEN IF param_type = "roi_params" /\ line.loaded
                 THEN [closed |-> FALSE, text |-> param_text]
                 ELSE ScanSection(Tail(lines), param_type, TRUE, param_text)
            ELSE IF ~in_section
            THEN ScanSection(Tail(lines), param_type, FALSE, param_text)
            ELSE IF line.kind = "start" /\ line.param_type = param_type
            THEN ScanSection(Tail(lines), param_type, TRUE, Append(param_text, BlankLine))
            ELSE IF line.kind = "close"
            THEN [closed |-> TRUE, text |-> param_text]
            ELSE IF ~HasHash(line)
            THEN ScanSection(Tail(lines), param_type, TRUE, Append(param_text, line))
            ELSE ScanSection(Tail(lines), param_type, TRUE, param_text)

\* full_param_text.strip() is empty
BlankText(text) == \A k \in 1..Len(text) : text[k].kind = "blank"

\* parse_parameters: the keys of the dict it returns.  The text is JSON once
\* wrapped in braces when all it holds is pairs; otherwise the fallback reads
\* the whole text (joined without newlines) as one line: no entry when it has
\* no colon, else one entry split at the first colon.
parse_parameters(params_text) ==
    IF \A k \in 1..Len(params_text) :
          \/ params_text[k].kind = "blank"
          \/ params_text[k].kind = "param" /\ params_text[k].form = "pair"
    THEN {"key"}
    ELSE IF \E k \in 1..Len(params_text) : HasColon(params_text[k])
         THEN {"mangled"}
         ELSE {}

\* params of parse_log_file: one entry for each group whose block was closed
\* with a text that is not blank.
ParamsOf(lines) ==
    {[param_type |-> pt,
      keys |-> parse_parameters(ScanSection(lines, pt, FALSE, <<>>).text)] :
        pt \in {q \in param_sections :
                   LET sc == ScanSection(lines, q, FALSE, <<>>)
                   IN sc.closed /\ ~BlankText(sc.text)}}

\* parse_log_file with the name given to the run
ParseNamed(content, name) ==
    LET line == best_result_line(content)
    IN IF Falsy(line) THEN Raised("RuntimeError")
       ELSE LET metrics == parse_result_data(line)
            IN IF metrics.raised # "" THEN metrics
               ELSE Returned(
                      [run |-> name,
                       profit |-> IF "total_profit" \in metrics.value.fields
                                  THEN "parsed" ELSE "zero",
                       okind |-> IF "objective" \in metrics.value.fields
                                 THEN "float" ELSE "None",
                       objective |-> metrics.value.objective,
                       drawdown |-> max_drawdown(content, line),
                       params |-> ParamsOf(content)])

\* Mutant: the result is named after the size of the board at the time.
parse_log_file_boardNamed(content, run_dir) ==
    ParseNamed(content, run_dir + Len(data.top_results))

\* parse_log_file(content, run_dir): the result carries run_dir.name
parse_log_file(content, run_dir) == ParseNamed(content, run_dir)

\* extract_data: RuntimeError without a log file or without the marker
extract_data(run_log, run_dir) ==
    IF ~run_log.exists THEN Raised("RuntimeError")
    ELSE IF \A k \in 1..Len(run_log.lines) : run_log.lines[k].kind # "marker"
         THEN Raised("RuntimeError")
         ELSE parse_log_file(run_log.lines, run_dir)

\* What the leaderboard reads of a result
BoardEntry(result) ==
    [run |-> result.run, okind |-> result.okind, objective |-> result.objective]

\* ------------------------------------------------------------ history values
NoResult == [run |-> 0, okind |-> "absent", objective |-> 0]
NoCall == [op |-> "none", arg |-> NoResult, raised |-> "", before |-> <<>>, write |-> "none"]
CallOf(op, arg, raised, before, w) ==
    [op |-> op, arg |-> arg, raised |-> raised, before |-> before, write |-> w]
\* An attempt's record: its steps in order; the artifact as the wait found it
\* when it completed or failed as unreadable; when the wait failed for no
\* artifact, the scan it failed on and the clock then; and whether a scan
\* past the minimum wait saw a process and let the wait go on; and the opens
\* of the artifact that have failed in a row in the wait going on or failed
\* as unreadable, with the run whose process created the artifact seen.
NewAttempt(run, first) ==
    [run |-> run, steps |-> <<first>>, seen |-> "absent", scan |-> "none",
     waited |-> 0, keptWaiting |-> FALSE, failedOpens |-> 0, seenBy |-> 0]
NoAttempt ==
    [run |-> 0, steps |-> <<>>, seen |-> "absent", scan |-> "none",
     waited |-> 0, keptWaiting |-> FALSE, failedOpens |-> 0, seenBy |-> 0]

\* States an earlier process saved: a board of one result, and the same with
\* one failed run.
EarlierData ==
    {[top_results |-> <<FloatResult(1, 1)>>, failed_runs |-> <<>>],
     [top_results |-> <<FloatResult(1, 1)>>,
      failed_runs |-> <<FailureRecord(2, "no_artifact")>>]}

\* What top_results.json can be when the process starts
StartFiles == {NoFile, CorruptFile, DocFile(EmptyData)} \cup {DocFile(d) : d \in EarlierData}

\* ------------------------------------------------------- the API driver
\* Calls of DataHandling's methods in any order, as a test or another caller
\* makes them, on a board constructed empty with a capacity chosen once.
ApiInitWith(capacities, files, logs) ==
    /\ pc = "api"
    /\ top_n \in capacities
    /\ num_runs = 0
    /\ i = 0
    /\ attempt = 0
    /\ elapsed = 0
    /\ lastScan = "none"
    /\ artifact = "absent"
    /\ artifactBy = 0
    /\ liveProcs = {}
    /\ data = EmptyData
    /\ file \in files
    /\ markers = {}
    /\ successful_runs = 0
    /\ lastCall = NoCall
    /\ calls = 0
    /\ attemptLog = NoAttempt
    /\ report = "none"
    /\ log_file \in logs
    /\ parses = <<>>

ApiInit == ApiInitWith(1..MaxTopN, {NoFile}, {NoLog})

ApiAddResult ==
    /\ pc = "api"
    /\ calls < MaxCalls
    /\ \E result \in AnyResults(calls + 1), w \in WriteOutcomes :
          LET out == add_result(data, file, result, top_n, w)
          IN /\ data' = out.data
             /\ file' = out.file
             /\ lastCall' = CallOf("add_result", result, out.raised, data.top_results,
                                       IF out.raised = "" THEN w ELSE "none")
    /\ calls' = calls + 1
    /\ UNCHANGED <<artifactBy, log_file, parses,
                   pc, top_n, num_runs, i, attempt, elapsed, lastScan,
                   artifact,
                   liveProcs, markers, successful_runs, attemptLog, report>>

ApiRecordFailure ==
    /\ pc = "api"
    /\ calls < MaxCalls
    /\ \E error \in {"no_artifact", "launch"}, w \in WriteOutcomes :
          LET out == record_failure(data, file, calls + 1, error, w)
          IN /\ data' = out.data
             /\ file' = out.file
             /\ lastCall' = CallOf("record_failure", NoResult, "", data.top_results, w)
    /\ calls' = calls + 1
    /\ UNCHANGED <<artifactBy, log_file, parses,
                   pc, top_n, num_runs, i, attempt, elapsed, lastScan,
                   artifact,
                   liveProcs, markers, successful_runs, attemptLog, report>>

ApiGetTopResults ==
    /\ pc = "api"
    /\ calls < MaxCalls
    /\ lastCall' = CallOf("get_top_results", NoResult, "", get_top_results(data), "none")
    /\ calls' = calls + 1
    /\ UNCHANGED <<artifactBy, log_file, parses,
                   pc, top_n, num_runs, i, attempt, elapsed, lastScan,
                   artifact,
                   liveProcs, data, file, markers, successful_runs, attemptLog, report>>

\* A call of load_data(): the state it returns, or what it raises
LoadCall(out, before) ==
    [op |-> "load_data", arg |-> NoResult, raised |-> out.raised, before |-> before,
     write |-> "none", returned |-> out.value]

ApiLoadData ==
    /\ pc = "api"
    /\ calls < MaxCalls
    /\ lastCall' = LoadCall(load_data(file), data.top_results)
    /\ calls' = calls + 1
    /\ UNCHANGED <<artifactBy, log_file, parses,
                   pc, top_n, num_runs, i, attempt, elapsed, lastScan,
                   artifact,
                   liveProcs, data, file, markers, successful_runs, attemptLog, report>>

ApiNext == ApiAddResult \/ ApiRecordFailure \/ ApiGetTopResults \/ ApiLoadData

BoardSpec == ApiInit /\ [][ApiNext]_vars

\* The same calls on an object whose results file is whatever another writer
\* left at that path: load_data reads any file there.
AnyFiles == StartFiles \cup {ForeignFile, BinaryFile}

FileInit == ApiInitWith({1}, AnyFiles, {NoLog})

FileSpec == FileInit /\ [][ApiNext]_vars

\* ------------------------------------------------------ the extraction driver
\* The logs parsed: what precedes and follows "Best result:", the table rows,
\* the "Max drawdown" lines and one parameter block, in that order.
BestParts ==
    {<<>>, <<TextLine>>, <<MarkerLine>>, <<MarkerLine, BlankLine>>,
     <<MarkerLine, BlankLine, BlankLine>>, <<MarkerLine, BlankLine, TextLine>>}
    \cup {<<MarkerLine, BlankLine, DataLine(e, "float", o)>> : e \in 0..1, o \in Objectives}
    \cup {<<MarkerLine, BlankLine, DataLine(e, k, 0)>> : e \in 0..1, k \in {"None", "bad"}}

TableParts ==
    {<<>>, <<TableRow(2, 11, "3.0 USDT (0.3%)")>>}
    \cup {<<TableRow(1, 11, c)>> : c \in {"3.0 USDT (0.3%)", "--", ""}}
    \cup {<<TableRow(1, 4, "")>>}

DrawdownParts == {<<>>, <<DrawdownLine("full")>>, <<DrawdownLine("loose")>>}

ParamParts ==
    {<<>>,
     <<SectionHeader("buy_params", FALSE), BlockStart("buy_params"), CloseLine>>,
     <<SectionHeader("buy_params", FALSE), BlockStart("buy_params"), ParamLine("pair")>>}
    \cup {<<SectionHeader("buy_params", FALSE), BlockStart("buy_params"), ParamLine(f),
             CloseLine>> : f \in {"pair", "junk", "comment"}}
    \cup {<<SectionHeader("roi_params", l), BlockStart("roi_params"), ParamLine("pair"),
             CloseLine>> : l \in BOOLEAN}

Logs ==
    {NoLog} \cup {LogOf(b \o t \o d \o q) :
                     b \in BestParts, t \in TableParts, d \in DrawdownParts,
                     q \in ParamParts}

\* One outcome of extract_data, and the size of the board when it was called
ParseOf(out) == [out |-> out, board |-> Len(data.top_results)]

\* extract_data(run_dir) on the log of the run directory
ApiExtractData ==
    /\ pc = "api"
    /\ calls < MaxCalls
    /\ parses' = Append(parses, ParseOf(extract_data(log_file, 1)))
    /\ calls' = calls + 1
    /\ UNCHANGED <<artifactBy, log_file, pc, top_n, num_runs, i, attempt, elapsed, lastScan,
                   artifact, liveProcs, data, file, markers, successful_runs, lastCall,
                   attemptLog, report>>

\* add_result of the result extracted last, as run_loop passes it on
ApiAdmitExtracted ==
    /\ pc = "api"
    /\ calls < MaxCalls
    /\ parses # <<>>
    /\ parses[Len(parses)].out.raised = ""
    /\ \E w \in WriteOutcomes :
          LET result == BoardEntry(parses[Len(parses)].out.value)
              out == add_result(data, file, result, top_n, w)
          IN /\ data' = out.data
             /\ file' = out.file
             /\ lastCall' = CallOf("add_result", result, out.raised, data.top_results,
                                       IF out.raised = "" THEN w ELSE "none")
    /\ calls' = calls + 1
    /\ UNCHANGED <<artifactBy, log_file, parses,
                   pc, top_n, num_runs, i, attempt, elapsed, lastScan,
                   artifact, liveProcs, markers, successful_runs, attemptLog, report>>

ParseInit == ApiInitWith({1}, {NoFile}, Logs)

ParseNext == ApiExtractData \/ ApiAdmitExtracted

ParseSpec == ParseInit /\ [][ParseNext]_vars

\* ------------------------------------------------------------ the campaign
MinWaitTicks == MIN_WAIT_BEFORE_PROCESS_CHECK * TicksPerSecond

\* The clock is kept exactly up to the minimum wait; every later reading
\* compares the same way, so it saturates one tick above.
ElapsedCap == MinWaitTicks + 1

\* time.sleep(seconds * 2 ticks): the clock reading after the sleep
Slept(e, ticks) == IF e + ticks > ElapsedCap THEN ElapsedCap ELSE e + ticks

\* Mutant: the scan is trusted from the first pass on.
NoArtifactFailure_noMinWait(hyperopt_running, e) == ~hyperopt_running

\* Mutant: the wait gives up once the minimum wait is over, process or not.
NoArtifactFailure_timeOnly(hyperopt_running, e) == e > MinWaitTicks

\* The no-artifact test of wait_for_hyperopt_completion
NoArtifactFailure(hyperopt_running, e) == ~hyperopt_running /\ e > MinWaitTicks

\* What the open-and-read of a found artifact does: raises OSError or passes.
\* f.read(1) returns "" on an empty file and raises nothing.
OpenRaises(a) == a = "unreadable"

\* handle_hyperopt_failure: the FAILED file (a JSON failure record) in
\* run_dir, then record_failure
FailureMarker(run_id, dir, error) ==
    [run_id |-> run_id, dir |-> dir, form |-> "record", error |-> error]
TextMarker(run_id, dir, error) ==
    [run_id |-> run_id, dir |-> dir, form |-> "text", error |-> error]

Step(log, name) == [log EXCEPT !.steps = Append(@, name)]

\* Before HyperLoop() is constructed: the configuration, what an earlier
\* campaign left on disk, nothing running.
InitWith(runs, capacities) ==
    /\ pc = "start"
    /\ top_n \in capacities
    /\ num_runs = runs
    /\ i = 0
    /\ attempt = 0
    /\ elapsed = 0
    /\ lastScan = "none"
    /\ artifact \in {"absent", "ready"}
    /\ artifactBy = 0
    /\ liveProcs = {}
    /\ data = EmptyData
    /\ file \in StartFiles
    /\ markers = {}
    /\ successful_runs = 0
    /\ lastCall = NoCall
    /\ calls = 0
    /\ attemptLog = NoAttempt
    /\ report = "none"
    /\ log_file = NoLog
    /\ parses = <<>>

Init == InitWith(MaxRuns, 1..MaxTopN)

\* HyperLoop.__init__ -> DataHandling.__init__: the data file is removed, then
\* loaded (so the load finds nothing); run_loop then starts at run 1.
Construct ==
    /\ pc = "start"
    /\ file' = clean_data_file(file)
    /\ data' = load_data(clean_data_file(file)).value
    /\ i' = 1
    /\ pc' = "loop"
    /\ UNCHANGED <<artifactBy, log_file, parses, top_n, num_runs, attempt, elapsed, lastScan,
                   artifact, liveProcs,
                   markers, successful_runs, lastCall, calls, attemptLog, report>>

\* Mutant: run_loop goes on to extract_data after a failed attempt.
AttemptFailed_thenExtract(dir, error, log) ==
    /\ \E w \in WriteOutcomes :
          LET out == record_failure(data, file, i, error, w)
          IN /\ data' = out.data
             /\ file' = out.file
             /\ lastCall' = CallOf("record_failure", NoResult, "", data.top_results, w)
    /\ markers' = markers \cup {FailureMarker(i, dir, error)}
    /\ attemptLog' = Step(Step(log, "marker"), "record_failure")
    /\ elapsed' = 0
    /\ attempt' = 0
    /\ lastScan' = "none"
    /\ i' = i
    /\ pc' = "extract"

\* The end of an attempt that failed inside run_single: handle_hyperopt_failure
\* writes the marker and records the failure; run_single returns None and
\* run_loop goes on to the next run.  The wait's locals are gone with it.
AttemptFailed(dir, error, log) ==
    /\ \E w \in WriteOutcomes :
          LET out == record_failure(data, file, i, error, w)
          IN /\ data' = out.data
             /\ file' = out.file
             /\ lastCall' = CallOf("record_failure", NoResult, "", data.top_results, w)
    /\ markers' = markers \cup {FailureMarker(i, dir, error)}
    /\ attemptLog' = Step(Step(log, "marker"), "record_failure")
    /\ elapsed' = 0
    /\ attempt' = 0
    /\ lastScan' = "none"
    /\ i' = i + 1
    /\ pc' = "loop"

\* The loop head of run_loop with run_single and run_hyperopt_window up to the
\* wait: the run directory is made, the old artifact removed, the optimizer
\* launched.  An exception on the way (removing the artifact, building the
\* command, starting the process) is caught by run_single, which makes a
\* second directory for the marker.
RunLoopNext ==
    /\ pc = "loop"
    /\ i <= num_runs
    /\ \/ /\ artifact' = "absent"
          /\ artifactBy' = 0
          /\ liveProcs' = liveProcs \cup {i}
          /\ elapsed' = 0
          /\ attempt' = 0
          /\ lastScan' = "none"
          /\ attemptLog' = NewAttempt(i, "launch")
          /\ pc' = "exists"
          /\ UNCHANGED <<i, data, file, markers, lastCall>>
       \/ /\ artifact' \in {artifact, "absent"}
          /\ artifactBy' = IF artifact' = "absent" THEN 0 ELSE artifactBy
          /\ AttemptFailed("recovery", "launch", NewAttempt(i, "launch_raised"))
          /\ UNCHANGED liveProcs
    /\ UNCHANGED <<log_file, parses, top_n, num_runs, successful_runs, calls, report>>

\* The final summary of run_loop
RunLoopDone ==
    /\ pc = "loop"
    /\ i > num_runs
    /\ pc' = "done"
    /\ UNCHANGED <<artifactBy, log_file, parses,
                   top_n, num_runs, i, attempt, elapsed, lastScan,
                   artifact, liveProcs,
                   data, file, markers, successful_runs, lastCall, calls, attemptLog,
                   report>>

\* One pass of the inner for loop of wait_for_hyperopt_completion
ExistsCheck ==
    /\ pc = "exists"
    /\ IF artifact # "absent"
       THEN IF OpenRaises(artifact)
            THEN IF attempt < max_retries - 1
                 THEN /\ elapsed' = Slept(elapsed, 1 * TicksPerSecond)
                      /\ attempt' = attempt + 1
                      /\ lastScan' = "none"
                      /\ attemptLog' = [attemptLog EXCEPT !.failedOpens = @ + 1]
                      /\ UNCHANGED <<pc, i, data, file, markers, lastCall>>
                 ELSE AttemptFailed("allocated", "unreadable",
                                    [Step(attemptLog, "wait_failed")
                                        EXCEPT !.seen = artifact, !.failedOpens = @ + 1,
                                               !.seenBy = artifactBy])
            ELSE /\ attemptLog' = [Step(attemptLog, "wait_completed")
                                      EXCEPT !.seen = artifact, !.failedOpens = 0,
                                             !.seenBy = artifactBy]
                 /\ elapsed' = 0
                 /\ attempt' = 0
                 /\ lastScan' = "none"
                 /\ pc' = "extract"
                 /\ UNCHANGED <<i, data, file, markers, lastCall>>
       ELSE /\ elapsed' = Slept(elapsed, 1)
            /\ IF attempt < max_retries - 1
               THEN /\ attempt' = attempt + 1
                    /\ pc' = pc
               ELSE /\ attempt' = attempt
                    /\ pc' = "scan"
            /\ lastScan' = "none"
            /\ UNCHANGED <<i, data, file, markers, lastCall, attemptLog>>
    /\ UNCHANGED <<artifactBy, log_file, parses, top_n, num_runs, artifact, liveProcs,
                   successful_runs, calls, report>>

\* What a process scan can observe: a matching process when one is running,
\* none otherwise, or psutil raising before any match (hyperopt_running stays
\* False).
ScanOutcomes == {IF liveProcs # {} THEN "found" ELSE "notfound", "error"}

\* The liveness check and the sleep at the end of the while loop
Scan ==
    /\ pc = "scan"
    /\ \E obs \in ScanOutcomes :
          /\ IF NoArtifactFailure(obs = "found", elapsed)
             THEN AttemptFailed("allocated", "no_artifact",
                                [Step(attemptLog, "wait_failed")
                                    EXCEPT !.scan = obs, !.waited = elapsed])
             ELSE /\ lastScan' = obs
                  /\ elapsed' = Slept(elapsed, CHECK_INTERVAL * TicksPerSecond)
                  /\ attempt' = 0
                  /\ pc' = "exists"
                  /\ attemptLog' = IF obs = "found" /\ elapsed > MinWaitTicks
                                    THEN [attemptLog EXCEPT !.keptWaiting = TRUE]
                                    ELSE attemptLog
                  /\ UNCHANGED <<i, data, file, markers, lastCall>>
    /\ UNCHANGED <<artifactBy, log_file, parses, top_n, num_runs, artifact, liveProcs,
                   successful_runs, calls, report>>

\* What extract_data can do with the run's log: raise RuntimeError (no log
\* file, no "Best result:" marker, no data line) or return a result.
ExtractOutcomes(run) ==
    {[raised |-> "RuntimeError", result |-> NoResult]}
        \cup {[raised |-> "", result |-> r] : r \in ExtractedResults(run)}

\* f"{result['objective']:.2f}": formatting None raises TypeError
FormatRaises(result) == result.okind # "float"

\* "New result added" is printed when the board grew
Reported(initial_count, new_count) ==
    IF new_count > initial_count THEN "added" ELSE "not_in_top"

\* DataHandling.copy_hyperopt_results is called by run_loop; it copies files
\* into the run directory and leaves the state modelled here alone.
copy_hyperopt_results(m) == m

\* The body of run_loop after run_single returned a directory: extraction,
\* the report, the admission, and the except clause for RuntimeError.
Extract ==
    /\ pc = "extract"
    /\ \E out \in ExtractOutcomes(i) :
          IF out.raised = "RuntimeError"
          THEN /\ markers' = markers \cup {TextMarker(i, "allocated", "extraction")}
               /\ attemptLog' = Step(Step(attemptLog, "extract_failed"), "marker")
               /\ i' = i + 1
               /\ pc' = "loop"
               /\ UNCHANGED <<data, file, successful_runs, lastCall, report>>
          ELSE IF FormatRaises(out.result)
          THEN /\ successful_runs' = successful_runs + 1
               /\ attemptLog' = Step(Step(attemptLog, "extracted"), "TypeError")
               /\ pc' = "crashed"
               /\ UNCHANGED <<i, data, file, markers, lastCall, report>>
          ELSE \E w \in WriteOutcomes :
               LET initial_count == Len(get_top_results(data))
                   added == add_result(data, file, out.result, top_n, w)
                   new_count == Len(get_top_results(added.data))
               IN /\ successful_runs' = successful_runs + 1
                  /\ data' = added.data
                  /\ file' = added.file
                  /\ lastCall' = CallOf("add_result", out.result, added.raised,
                                        data.top_results,
                                        IF added.raised = "" THEN w ELSE "none")
                  /\ IF added.raised # ""
                     THEN /\ attemptLog' = Step(Step(attemptLog, "extracted"), "TypeError")
                          /\ pc' = "crashed"
                          /\ UNCHANGED <<i, markers, report>>
                     ELSE /\ attemptLog' = Step(Step(attemptLog, "extracted"), "add_result")
                          /\ report' = Reported(initial_count, new_count)
                          /\ markers' = copy_hyperopt_results(markers)
                          /\ i' = i + 1
                          /\ pc' = "loop"
    /\ UNCHANGED <<artifactBy, log_file, parses, top_n, num_runs, attempt, elapsed, lastScan,
                   artifact, liveProcs, calls>>

\* ---------------------------------------------------------- the environment
Waiting == pc \in {"exists", "scan"}

\* A running optimizer creates or completes the artifact.
ArtifactNext(a) ==
    IF a = "absent" THEN {"unreadable", "empty", "ready"}
    ELSE IF a = "unreadable" THEN {"empty", "ready"}
    ELSE IF a = "empty" THEN {"ready"}
    ELSE {}

EnvWritesArtifact ==
    /\ Waiting
    /\ \E p \in liveProcs :
          /\ artifact' \in ArtifactNext(artifact)
          /\ artifactBy' = IF artifact = "absent" THEN p ELSE artifactBy
    /\ UNCHANGED <<log_file, parses, pc, top_n, num_runs, i, attempt, elapsed, lastScan,
                   liveProcs, data,
                   file, markers, successful_runs, lastCall, calls, attemptLog, report>>

\* A launched optimizer process ends.
EnvProcessExits ==
    /\ Waiting
    /\ \E p \in liveProcs : liveProcs' = liveProcs \ {p}
    /\ UNCHANGED <<artifactBy, log_file, parses,
                   pc, top_n, num_runs, i, attempt, elapsed, lastScan,
                   artifact, data,
                   file, markers, successful_runs, lastCall, calls, attemptLog, report>>

\* The wall clock runs on while the driver is not scheduled: a sleep lasts at
\* least as long as asked.
EnvTimePasses ==
    /\ Waiting
    /\ elapsed < ElapsedCap
    /\ elapsed' = ElapsedCap
    /\ UNCHANGED <<artifactBy, log_file, parses,
                   pc, top_n, num_runs, i, attempt, lastScan, artifact,
                   liveProcs, data,
                   file, markers, successful_runs, lastCall, calls, attemptLog, report>>

Driver == Construct \/ RunLoopNext \/ RunLoopDone \/ ExistsCheck \/ Scan \/ Extract

Environment == EnvWritesArtifact \/ EnvProcessExits \/ EnvTimePasses

Next == Driver \/ Environment

Spec == Init /\ [][Next]_vars

\* A campaign of two runs on a board of one, for the properties of the wait
\* alone: the second wait starts with the first run's process possibly alive.
WaitInit == InitWith(2, {1})

\* The driver is one thread that is never blocked for good: every sleep
\* returns, so a driver step that stays possible is eventually taken.
WaitSpec == WaitInit /\ [][Next]_vars /\ WF_vars(Driver)

\* ================================================================ claims
\* The rank the specification gives a result: its objective, or +infinity
\* when it has none (null or missing).
Rank(r) == IF r.okind = "float" THEN r.objective ELSE Inf

Entries(s) == {s[k] : k \in 1..Len(s)}

HasObjectiveOrder(r) == r.okind # "None"

WorstRank(s) == CHOOSE v \in {Rank(x) : x \in Entries(s)} :
                    \A x \in Entries(s) : Rank(x) <= v

BestRank(s) == CHOOSE v \in {Rank(x) : x \in Entries(s)} :
                   \A x \in Entries(s) : v <= Rank(x)

SortedAscending(s) == \A k \in 1..(Len(s) - 1) : Rank(s[k]) <= Rank(s[k + 1])

AddResultCalled == lastCall.op = "add_result"

\* C1: after every add_result call in any sequence of calls on a board that
\* started empty, with one capacity N >= 1, top_results holds at most N
\* entries and is sorted ascending by objective (none ranks as +infinity).
C1_BoundedAndSorted ==
    /\ Len(data.top_results) <= top_n
    /\ SortedAscending(data.top_results)

\* C1 witness: a call on a full board of two evicted an entry, and the board
\* holds two different objectives.
C1_Witness ==
    /\ AddResultCalled
    /\ top_n = 2
    /\ Len(lastCall.before) = 2
    /\ lastCall.arg \in Entries(data.top_results)
    /\ Rank(data.top_results[1]) < Rank(data.top_results[2])

C3_AdmittedIff ==
    AddResultCalled
    => (lastCall.arg \in Entries(data.top_results)
        <=> \/ Len(lastCall.before) < top_n
            \/ Rank(lastCall.arg) < WorstRank(lastCall.before))

\* C4: add_result of a result whose objective is None raises nothing, the
\* result ranks as +infinity, and on a full board it evicts no entry that
\* has a real objective.
C4_NoneObjectiveRankable ==
    (AddResultCalled /\ lastCall.arg.okind = "None")
    => /\ lastCall.raised = ""
       /\ SortedAscending(data.top_results)
       /\ \A x \in Entries(lastCall.before) :
             x.okind = "float" => x \in Entries(data.top_results)

Steps(a) == Entries(a.steps)

FailureRecordsOf(run) ==
    {k \in 1..Len(data.failed_runs) : data.failed_runs[k].run_id = run}

WaitFailedWith(error) ==
    /\ "wait_failed" \in Steps(attemptLog)
    /\ \E k \in FailureRecordsOf(attemptLog.run) : data.failed_runs[k].error = error

MarkerInRunDir(run) == \E m \in markers : m.run_id = run /\ m.dir = "allocated"

\* C5: whatever each attempt's outcome, run_loop goes on to the next run_id
\* and reaches the final summary: no attempt's exception leaves run_loop.
C5_CampaignNeverAborts == pc # "crashed"

\* C6: after an extraction failure the run directory holds a failure marker
\* and failed_runs holds exactly one FailureRecord for that run_id.
C6_ExtractionFailureRecorded ==
    "extract_failed" \in Steps(attemptLog)
    => /\ MarkerInRunDir(attemptLog.run)
       /\ Cardinality(FailureRecordsOf(attemptLog.run)) = 1

\* What C7 says of an attempt whose wait failed, but for the file: the marker
\* is in the run directory, one FailureRecord with the run_id is the last of
\* failed_runs, and the attempt neither extracted nor admitted anything.
WaitFailureHandled ==
    /\ MarkerInRunDir(attemptLog.run)
    /\ FailureRecordsOf(attemptLog.run) = {Len(data.failed_runs)}
    /\ lastCall.op = "record_failure"
    /\ Steps(attemptLog) \cap {"extracted", "extract_failed", "add_result"} = {}
    /\ \A r \in Entries(data.top_results) : r.run # attemptLog.run

\* C7 as stated: when the wait fails, the marker is written, one
\* FailureRecord with the run_id is appended and persisted, and neither
\* extract_data nor add_result is invoked for the attempt.
C7_WaitFailureRecordedAndPersisted ==
    "wait_failed" \in Steps(attemptLog)
    => /\ WaitFailureHandled
       /\ file = DocFile(data)

\* C7 amended: as stated, except that the record is on disk only when the
\* write of the file succeeds; save_data is called either way and a failed
\* write leaves the record in memory only.
C7_WaitFailureRecorded ==
    "wait_failed" \in Steps(attemptLog)
    => /\ WaitFailureHandled
       /\ lastCall.write = "ok" => file = DocFile(data)

\* C7 witness: a wait failed for no artifact and the record was written out.
C7_Witness ==
    /\ WaitFailedWith("no_artifact")
    /\ lastCall.write = "ok"
    /\ file = DocFile(data)
    /\ pc = "loop"

\* C8: the no-artifact error is never raised before the minimum wait is over,
\* whatever the scans saw; and when the artifact never appears and no
\* matching process runs, the wait ends with the no-artifact error.
C8_NoArtifactTimeout ==
    /\ [](WaitFailedWith("no_artifact") => attemptLog.waited > MinWaitTicks)
    /\ \A k \in 1..2 :
          (Waiting /\ i = k /\ artifact = "absent" /\ liveProcs = {})
              ~> (\E j \in 1..Len(data.failed_runs) :
                     data.failed_runs[j] = FailureRecord(k, "no_artifact"))

\* C8 witness: a wait failed for no artifact on a scan that found no process.
C8_Witness ==
    /\ WaitFailedWith("no_artifact")
    /\ attemptLog.scan = "notfound"
    /\ attemptLog.waited > MinWaitTicks

\* C9: with the artifact absent the wait ends only on a scan that saw no
\* matching process: while every scan sees one, the wait neither returns nor
\* fails, however long it has lasted.
C9_WaitsWhileProcessSeen ==
    /\ "wait_completed" \in Steps(attemptLog) => attemptLog.seen # "absent"
    /\ WaitFailedWith("unreadable") => attemptLog.seen # "absent"
    /\ WaitFailedWith("no_artifact") => attemptLog.scan \in {"notfound", "error"}

\* C9 witness: past the minimum wait a scan saw a process, and the wait goes
\* on with no artifact.
C9_Witness ==
    /\ Waiting
    /\ attemptLog.keptWaiting
    /\ artifact = "absent"
    /\ elapsed = ElapsedCap

\* C10: the wait completes only on an artifact that opens and yields at
\* least one byte; an empty artifact does not complete it.
C10_CompletionNeedsByte ==
    "wait_completed" \in Steps(attemptLog) => attemptLog.seen = "ready"

\* C11: at every moment at most one launched optimizer process is live: the
\* process of run k+1 is launched only after the process of run k has ended,
\* whether run k's wait completed or failed.
C11_OneProcessLive == Cardinality(liveProcs) <= 1

\* C12: when a parseable results file exists as the process starts, the state
\* in memory after construction is the state in that file, so the
\* top_results and failed_runs of an earlier process are kept.
C12_StartReloadsFile ==
    [][(pc = "start" /\ file.kind = "doc") => data' = json_loads(file.doc)]_vars

LoadDataCalled == lastCall.op = "load_data"

\* C13: for every state reached by add_result and record_failure, save_data
\* with a successful write followed by load_data yields the saved state, equal
\* in content and in the order of top_results and of failed_runs.
C13_RoundTrip ==
    /\ load_data(save_data(data, file, "ok")) = Returned(data)
    /\ (LoadDataCalled /\ file = DocFile(data))
       => (lastCall.raised = "" /\ lastCall.returned = data)

\* C13 witness: load_data was called on the file saved from a board of two
\* results, one of them without an objective, and one failed run.
C13_Witness ==
    /\ LoadDataCalled
    /\ file = DocFile(data)
    /\ lastCall.returned = data
    /\ Len(data.top_results) = 2
    /\ \E r \in Entries(data.top_results) : r.okind = "absent"
    /\ Len(data.failed_runs) = 1

\* A file that holds a leaderboard document: JSON with both members
IsLeaderboardDocument(f) ==
    f.kind = "doc" /\ {"top_results", "failed_runs"} \subseteq DOMAIN f.doc

\* C14: load_data never fails: on a file that is missing, unreadable or not a
\* leaderboard document it returns the empty state, so the state it returns
\* always has both members and a later record_failure works on it.
C14_LoadNeverFails ==
    LoadDataCalled
    => /\ lastCall.raised = ""
       /\ {"top_results", "failed_runs"} \subseteq DOMAIN lastCall.returned
       /\ ~IsLeaderboardDocument(file) => lastCall.returned = EmptyData
       /\ record_failure(lastCall.returned, file, 1, "no_artifact", "ok").raised = ""

Mutated == lastCall.op \in {"add_result", "record_failure"}

\* C15: after every add_result or record_failure whose write succeeds, the
\* file holds the whole current state in memory: exactly the two members
\* top_results (at most N entries) and failed_runs, never an earlier or a
\* partial state.
C15_FileHoldsCurrentState ==
    (Mutated /\ lastCall.write = "ok")
    => /\ file.kind = "doc"
       /\ DOMAIN file.doc = {"top_results", "failed_runs"}
       /\ Len(file.doc.top_results) <= top_n
       /\ json_loads(file.doc) = data

\* C15 witness: a record_failure wrote out a state with a full board of two
\* and a failed run.
C15_Witness ==
    /\ lastCall.op = "record_failure"
    /\ lastCall.write = "ok"
    /\ top_n = 2
    /\ Len(data.top_results) = 2
    /\ Len(file.doc.failed_runs) >= 1
    /\ json_loads(file.doc) = data

WriteFailed == lastCall.write \in {"unchanged", "partial"}

\* The attempt whose call of add_result or record_failure lastCall describes
\* is still the current one.
CallOfThisAttempt == Steps(attemptLog) \cap {"add_result", "record_failure"} # {}

\* C16: a failed write of the file during add_result or record_failure is
\* not fatal: the call returns normally, the state in memory holds the
\* mutation (an admitted candidate is on the board, the failure record is the
\* last of failed_runs), and the campaign goes on to the next run.
C16_FailedWriteNotFatal ==
    (WriteFailed /\ CallOfThisAttempt)
    => /\ lastCall.raised = ""
       /\ (lastCall.op = "add_result"
            /\ (Len(lastCall.before) < top_n
                \/ Rank(lastCall.arg) < WorstRank(lastCall.before)))
          => lastCall.arg \in Entries(get_top_results(data))
       /\ lastCall.op = "record_failure"
          => FailureRecordsOf(attemptLog.run) = {Len(data.failed_runs)}
       /\ pc \in {"loop", "done"}

\* C16 witness: the write failed during the admission of run 1's result, the
\* result is on the board in memory and not in the file, and run 2 is next.
C16_Witness ==
    /\ WriteFailed
    /\ lastCall.op = "add_result"
    /\ "add_result" \in Steps(attemptLog)
    /\ lastCall.arg \in Entries(data.top_results)
    /\ file # DocFile(data)
    /\ pc = "loop"
    /\ i = 2

\* The calls of extract_data that returned a result
ReturnedParses == {k \in 1..Len(parses) : parses[k].out.raised = ""}

\* The log has a completion marker; the line two below the first one
HasMarker(l) == \E k \in 1..Len(l.lines) : l.lines[k].kind = "marker"
LineBelowMarker(l) ==
    LET m == First({k \in 1..Len(l.lines) : l.lines[k].kind = "marker"})
    IN IF m + 2 <= Len(l.lines) THEN l.lines[m + 2] ELSE NoLine

\* C17: extract_data fails, and returns no result, when the log has no
\* "Best result:" marker, and when the marker is there but the line two
\* below it is missing or carries none of the metric fields.
C17_ExtractionFailsWithoutDataLine ==
    \A k \in 1..Len(parses) :
        (~HasMarker(log_file) \/ LineBelowMarker(log_file).kind # "data")
        => parses[k].out.raised # ""

\* C18: the drawdown is the table's, when the result line has an epoch index
\* and the epoch's row yields a value; else the full pattern's when the
\* content matches it; else the looser pattern's; and unset only when all
\* three fail.
C18_DrawdownFallbacks ==
    \A k \in ReturnedParses :
        LET lines == log_file.lines
            line == LineBelowMarker(log_file)
            table == IF line.kind = "data" /\ line.epoch # 0
                     THEN TableDrawdown(lines, line.epoch)
                     ELSE "unset"
        IN parses[k].out.value.drawdown =
              IF table # "unset" THEN table ELSE PatternDrawdown(lines)

\* C19: in every result returned, each group present in params is non-empty:
\* a group whose section is absent or whose block yields no parameters is
\* left out.
C19_NoEmptyParamGroup ==
    \A k \in ReturnedParses :
        \A g \in parses[k].out.value.params : g.keys # {}

RecordFailureStep == calls' = calls + 1 /\ lastCall'.op = "record_failure"

\* C21: failed_runs is append-only: record_failure appends exactly one
\* FailureRecord (run_id, timestamp, error message, error kind) at the end,
\* and no operation removes, reorders or changes a record already there.
C21_FailedRunsAppendOnly ==
    [][/\ Len(data'.failed_runs) >= Len(data.failed_runs)
       /\ SubSeq(data'.failed_runs, 1, Len(data.failed_runs)) = data.failed_runs
       /\ IF RecordFailureStep
          THEN /\ Len(data'.failed_runs) = Len(data.failed_runs) + 1
               /\ LET rec == data'.failed_runs[Len(data'.failed_runs)]
                  IN /\ DOMAIN rec = {"run_id", "timestamp", "error", "error_type"}
                     /\ rec.run_id = calls'
          ELSE data'.failed_runs = data.failed_runs]_vars

\* C21 witness: two failures were recorded, in the order of the calls, and an
\* admission made after them left both in place.
C21_Witness ==
    /\ AddResultCalled
    /\ lastCall.raised = ""
    /\ Len(data.failed_runs) = 2
    /\ data.failed_runs[1].run_id < data.failed_runs[2].run_id
    /\ data.failed_runs[2].run_id < calls

\* C22: the wait fails as unreadable only after the found artifact failed to
\* open on several attempts in a row: one failed open of an artifact that has
\* just appeared never fails the wait, whichever existence check saw it first.
C22_UnreadableOnlyAfterRetries ==
    WaitFailedWith("unreadable") => attemptLog.failedOpens >= 2

\* The steps of one attempt are in the order launch, wait, extract, admit.
StepsInOrder(steps) ==
    \A k \in 1..Len(steps) :
        /\ steps[k] \in {"wait_completed", "wait_failed"}
           => (k = 2 /\ steps[1] = "launch")
        /\ steps[k] \in {"extracted", "extract_failed"}
           => (k = 3 /\ steps[2] = "wait_completed")
        /\ steps[k] = "add_result"
           => (k = 4 /\ steps[3] = "extracted")

\* The attempt reached SUCCESS or FAILED
Ended(a) ==
    /\ a.steps # <<>>
    /\ a.steps[Len(a.steps)] \in {"add_result", "record_failure", "marker"}

\* C23: for every attempt the steps come in the order launch, wait, extract,
\* admit: extract_data only after the wait of the same attempt completed,
\* add_result only after extract_data returned a result for that attempt, and
\* no step of attempt k+1 before attempt k reached SUCCESS or FAILED.
C23_StepsInOrder ==
    /\ [](/\ StepsInOrder(attemptLog.steps)
          /\ pc \in {"exists", "scan", "extract"} => attemptLog.run = i
          /\ "add_result" \in Steps(attemptLog) => lastCall.arg.run = attemptLog.run)
    /\ [][attemptLog'.run # attemptLog.run
           => /\ attemptLog.run = 0 \/ Ended(attemptLog)
              /\ attemptLog'.run = attemptLog.run + 1
              /\ attemptLog'.steps[1] \in {"launch", "launch_raised"}]_vars

\* C23 witness: the second attempt went through all four steps.
C23_Witness ==
    /\ attemptLog.run = 2
    /\ attemptLog.steps = <<"launch", "wait_completed", "extracted", "add_result">>
    /\ lastCall.arg.run = 2

\* C24: the artifact is removed before each launch, so the completion of
\* attempt k is never declared on an artifact written before the process of
\* attempt k was launched: the artifact on which the wait completes is the
\* one the process of attempt k created.
C24_NoStaleArtifact ==
    "wait_completed" \in Steps(attemptLog) => attemptLog.seenBy = attemptLog.run

\* C25: every attempt that ends FAILED (launch exception, wait failure or
\* extraction failure) has a failure marker in the run directory allocated
\* for it at its start, holding the failure message and the failure record.
C25_MarkerInAllocatedDir ==
    "marker" \in Steps(attemptLog)
        => \E m \in markers : /\ m.run_id = attemptLog.run
                              /\ m.dir = "allocated"
                              /\ m.form = "record"

\* The positions of a board that hold its worst rank
WorstPositions(s) == {k \in 1..Len(s) : Rank(s[k]) = WorstRank(s)}

FirstWorst(s) == CHOOSE k \in WorstPositions(s) : \A j \in WorstPositions(s) : k <= j

Without(s, k) == SubSeq(s, 1, k - 1) \o SubSeq(s, k + 1, Len(s))

IsNot(x) == x # lastCall.arg

C27_ScanErrorKeepsWaiting ==
    WaitFailedWith("no_artifact") => attemptLog.scan # "error"

\* The wait of attempt k is over: it returned or raised
WaitEnded(k) ==
    /\ attemptLog.run = k
    /\ Steps(attemptLog) \cap {"wait_completed", "wait_failed"} # {}

\* From the point where no matching process runs any more, the wait of
\* attempt k returns or raises.
WaitTerminates(k) == (Waiting /\ i = k /\ liveProcs = {}) ~> WaitEnded(k)

\* From that point attempt k reaches SUCCESS or FAILED.
AttemptTerminates(k) ==
    (Waiting /\ i = k /\ liveProcs = {}) ~> (attemptLog.run = k /\ Ended(attemptLog))

\* C28: under fair scheduling, once no matching process is running any more,
\* wait_for_hyperopt_completion terminates, by returning or by raising, so
\* that each attempt reaches SUCCESS or FAILED.
C28_AttemptsTerminate ==
    \A k \in 1..2 : WaitTerminates(k) /\ AttemptTerminates(k)

\* C29: when the final summary is reported, the successful count plus the
\* number of records in failed_runs is the number of attempts: every attempt
\* is counted once, as a success or as a recorded failure.
C29_SummaryCountsEveryAttempt ==
    pc = "done" => successful_runs + Len(data.failed_runs) = num_runs

RunsOf(s) == {x.run : x \in Entries(s)}

\* The step is the add_result call of run_loop for the run going on, on the
\* result extract_data just returned for it.
AdmissionStep ==
    /\ pc = "extract"
    /\ lastCall'.op = "add_result"
    /\ lastCall'.raised = ""
    /\ lastCall'.arg.run = i
    /\ lastCall'.arg \in ExtractedResults(i)
    /\ lastCall'.before = data.top_results
    /\ "extracted" \in Steps(attemptLog')

\* C30: at every point of a campaign top_results holds at most one result per
\* run, every entry is the result extract_data returned for its run, as it
\* was returned, and an entry leaves top_results only by eviction in
\* add_result.
C30_EntriesOwnedByBoard ==
    /\ [](Cardinality(RunsOf(data.top_results)) = Len(data.top_results))
    /\ [][LET old == Entries(data.top_results)
              new == Entries(data'.top_results)
          IN /\ new \ old # {} => AdmissionStep /\ new \ old = {lastCall'.arg}
             /\ old \ new # {} => /\ AdmissionStep
                                  /\ Len(data.top_results) = top_n
                                  /\ Cardinality(old \ new) = 1
                                  /\ old \ new = {data.top_results[MaxIndex(data.top_results)]}
                                  /\ lastCall'.arg \in new]_vars

\* C30 witness: the second run's result took the place of the first run's on
\* a full board.
C30_Witness ==
    /\ attemptLog.run = 2
    /\ "add_result" \in Steps(attemptLog)
    /\ Len(lastCall.before) = top_n
    /\ RunsOf(lastCall.before) = {1}
    /\ RunsOf(data.top_results) = {2}

\* C31: run_loop reports "New result added to top" for an attempt exactly
\* when the attempt's result is in top_results after add_result, and "Result
\* not in top" exactly when it was rejected; a result admitted at capacity by
\* evicting the worst entry is reported as added.
C31_ReportMatchesAdmission ==
    (AddResultCalled /\ "add_result" \in Steps(attemptLog))
        => /\ report = "added" <=> lastCall.arg \in Entries(data.top_results)
           /\ report = "not_in_top" <=> lastCall.arg \notin Entries(data.top_results)

\* The step is a call of the named operation of DataHandling
CallStep(op) == calls' = calls + 1 /\ lastCall'.op = op

\* C32: add_result leaves failed_runs unchanged, record_failure leaves
\* top_results unchanged, and get_top_results changes nothing in the state.
C32_Frame ==
    [][/\ CallStep("add_result") => data'.failed_runs = data.failed_runs
       /\ CallStep("record_failure") => data'.top_results = data.top_results
       /\ CallStep("get_top_results") => data' = data /\ file' = file]_vars

\* C32 witness: a candidate took a place on a full board while failures were
\* on record, and the record is as it was.
C32_Witness ==
    /\ AddResultCalled
    /\ lastCall.raised = ""
    /\ Len(lastCall.before) = top_n
    /\ lastCall.arg \in Entries(data.top_results)
    /\ Len(data.failed_runs) = 1
    /\ data.failed_runs[1].run_id < lastCall.before[1].run
====
